---- MODULE Spec2Model ----
\* Verification model of two components of the repository:
\*   - RacerSimROS (racersim/nodes/sim_node.py): the command callback and the
\*     fixed-rate step loop around an external physics backend;
\*   - Sim (rocket_league_simulation/src/simulator/sim.py): step and reset of
\*     the pybullet-backed simulator.
\* Time is counted in units of half a second.
EXTENDS Integers, Sequences, FiniteSets, TLC

\* ---------------------------------------------------------------- bounds
\* The ROS clock is observed over 0..MaxTime.
MaxTime == 4
\* p.getContactPoints returns at most MaxContacts contacts of the ball.
MaxContacts == 2
\* The physics engine is followed for MaxEngineSteps steps.
MaxEngineSteps == 3
\* run_drl is started with at most MaxArgs command-line arguments.
MaxArgs == 2

\* ------------------------------------------------------------- constants
\* Python's None in a field that otherwise holds a tuple or a message.
None == << >>

\* Python's None in a field that otherwise holds a time (times are >= 0).
NoTime == -1

\* self.timeout, the default of the '~timeout' parameter: 1.0 s = 2 units.
Timeout == 2

\* The command messages (linear.x, angular.z) the subscriber may receive.
Twists ==
    { [linear |-> 1, angular |-> 0],
      [linear |-> 0, angular |-> 1],
      [linear |-> 2, angular |-> 2] }

\* The three outbound topics and the publisher created on each.
Topics == {"ball_pose", "bot_odom", "goal_pose"}

\* -------------------------------------------------------------- variables
VARIABLES
    \* environment of the node
    clock,              \* rospy.Time.now()
    shutdown,           \* rospy.is_shutdown()
    \* RacerSimROS fields
    lock,               \* self.lock: "free" or "held"
    last_command,       \* self.last_command: None or <<time, linear, angular>>
    last_time,          \* self.last_time: NoTime or a time
    \* the main thread: the while loop of __init__ and loop_once
    pc,
    now,                \* locals of loop_once
    delta_t,
    last_command_time,
    linear,
    angular,
    \* the subscriber thread: command_cb
    cb_pc,
    cb_time,            \* the value of rospy.Time.now() evaluated at line 81
    cb_msg,
    \* the collaborators of the node, as seen from it
    phys,               \* racersim.Sim: number of step calls so far
    step_args,          \* arguments of the step call of the current tick
    pubs,               \* messages published on each topic in the current tick
    pub_read,           \* phys as read by the getters for each topic's message
    pub_stamp,          \* header.stamp of each topic's message
    \* history
    tick_times,         \* the timestamps `now` of the ticks, in order
    idle_ticks,         \* ticks that found last_time to be None
    last_written,       \* the command composed by the latest command_cb
    read_from,          \* last_written at the moment line 92 read the command
    \* Sim fields (sim.py)
    running,            \* self.running
    scored,             \* self.scored
    touched_last,       \* self.touched_last: None or <<car id>>
    touchedLast,        \* self.touchedLast: Unset until line 87 creates it
    \* the collaborators of Sim, as seen from it
    engine_steps,       \* number of p.stepSimulation() calls
    car_steps,          \* number of Car.step calls
    car_cmd,            \* arguments of the latest Car.step call
    ball_pose,          \* "initial" or "moved"
    car_pose,           \* "initial" or "moved"
    \* history
    sim_call,           \* the latest call of a Sim method: whether it raised,
                        \* and for step whether it found self.running set,
                        \* the contacts it was given and whether it returned
                        \* at a contact with the goal
    \* run_drl.py, module top level
    argv,               \* sys.argv
    drl_pc,             \* the statement the script is at, or how it ended
    env,                \* the names the script binds; Unbound before that
    mode,
    Interface,
    built,              \* what was constructed: Agent, Trainer, Evaluator
    reported            \* what was printed

nodeVars ==
    << clock, shutdown, lock, last_command, last_time, pc, now, delta_t,
       last_command_time, linear, angular, cb_pc, cb_time, cb_msg, phys,
       step_args, pubs, pub_read, pub_stamp, tick_times, idle_ticks, last_written,
       read_from >>

simVars ==
    << running, scored, touched_last, touchedLast, engine_steps, car_steps,
       car_cmd, ball_pose, car_pose, sim_call >>

drlVars == << argv, drl_pc, env, mode, Interface, built, reported >>

vars == << nodeVars, simVars, drlVars >>

\* ------------------------------------------------------- RacerSimROS model

\* Positions of the main thread outside a tick.
LoopStopped == {"exited", "raised"}
\* Positions of the main thread inside loop_once, lock acquired.
TickBody ==
    { "now", "test_last_time", "test_command", "delta_t", "unpack", "step",
      "pub_ball", "pub_bot", "pub_goal", "set_last_time", "release" }

NoPubs == [t \in Topics |-> 0]

\* sim_node.py 53-55 and the state of the collaborators at construction.
NodeInit ==
    /\ clock = 0
    /\ shutdown = FALSE
    /\ lock = "free"
    /\ last_command = None
    /\ last_time = NoTime
    /\ pc = "check"
    /\ now = 0
    /\ delta_t = 0
    /\ last_command_time = 0
    /\ linear = 0
    /\ angular = 0
    /\ cb_pc = "idle"
    /\ cb_time = NoTime
    /\ cb_msg = None
    /\ phys = 0
    /\ step_args = None
    /\ pubs = NoPubs
    /\ pub_read = [t \in Topics |-> NoTime]
    /\ pub_stamp = [t \in Topics |-> NoTime]
    /\ tick_times = << >>
    /\ idle_ticks = 0
    /\ last_written = None
    /\ read_from = None

\* The node's process is alive: the main thread has neither left the loop nor
\* died of an uncaught exception.
Alive == pc \notin LoopStopped

\* --- environment

\* Time passes (followed for as long as the node is there to read the clock).
Advance ==
    /\ Alive
    /\ clock < MaxTime
    /\ clock' = clock + 1
    /\ UNCHANGED << shutdown, lock, last_command, last_time, pc, now, delta_t,
                    last_command_time, linear, angular, cb_pc, cb_time, cb_msg,
                    phys, step_args, pubs, pub_read, pub_stamp, tick_times, idle_ticks,
                    last_written, read_from >>
    /\ UNCHANGED simVars
    /\ UNCHANGED drlVars

\* The external shutdown signal.
Shutdown ==
    /\ ~shutdown
    /\ shutdown' = TRUE
    /\ UNCHANGED << clock, lock, last_command, last_time, pc, now, delta_t,
                    last_command_time, linear, angular, cb_pc, cb_time, cb_msg,
                    phys, step_args, pubs, pub_read, pub_stamp, tick_times, idle_ticks,
                    last_written, read_from >>
    /\ UNCHANGED simVars
    /\ UNCHANGED drlVars

\* --- command_cb (the subscriber thread)

\* A command updated field by field, one field left behind.
TornCommandTuple(t, msg) ==
    IF last_command = None
    THEN << t, msg.linear, msg.angular >>
    ELSE << t, last_command[2], msg.angular >>

\* Line 81, right-hand side: the tuple built from the stamp and the message.
CommandTuple(t, msg) == << t, msg.linear, msg.angular >>

\* Line 81, first half: a message arrives and rospy.Time.now() is evaluated.
CbStamp ==
    /\ Alive
    /\ cb_pc = "idle"
    /\ \E msg \in Twists : cb_msg' = msg
    /\ cb_time' = clock
    /\ cb_pc' = "store"
    /\ UNCHANGED << clock, shutdown, lock, last_command, last_time, pc, now,
                    delta_t, last_command_time, linear, angular, phys,
                    step_args, pubs, pub_read, pub_stamp, tick_times, idle_ticks,
                    last_written, read_from >>
    /\ UNCHANGED simVars
    /\ UNCHANGED drlVars

\* Line 81, second half: the tuple is bound to self.last_command. The lock is
\* not taken.
CbStore ==
    /\ Alive
    /\ cb_pc = "store"
    /\ last_command' = CommandTuple(cb_time, cb_msg)
    /\ last_written' = << cb_time, cb_msg.linear, cb_msg.angular >>
    /\ cb_pc' = "idle"
    /\ cb_time' = NoTime
    /\ cb_msg' = None
    /\ UNCHANGED << clock, shutdown, lock, last_time, pc, now, delta_t,
                    last_command_time, linear, angular, phys,
                    step_args, pubs, pub_read, pub_stamp, tick_times, idle_ticks,
                    read_from >>
    /\ UNCHANGED simVars
    /\ UNCHANGED drlVars

\* --- the while loop of __init__ (the main thread)

\* Line 71: the loop condition.
CheckShutdown ==
    /\ pc = "check"
    /\ pc' = IF shutdown THEN "exited" ELSE "acquire"
    /\ UNCHANGED << clock, shutdown, lock, last_command, last_time, now,
                    delta_t, last_command_time, linear, angular, cb_pc,
                    cb_time, cb_msg, phys, step_args, pubs, pub_read, pub_stamp,
                    tick_times, idle_ticks, last_written, read_from >>
    /\ UNCHANGED simVars
    /\ UNCHANGED drlVars

\* Line 74: rate.sleep() returns at the end of the period.
SleepReturns ==
    /\ pc = "sleep"
    /\ pc' = "check"
    /\ UNCHANGED << clock, shutdown, lock, last_command, last_time, now,
                    delta_t, last_command_time, linear, angular, cb_pc,
                    cb_time, cb_msg, phys, step_args, pubs, pub_read, pub_stamp,
                    tick_times, idle_ticks, last_written, read_from >>
    /\ UNCHANGED simVars
    /\ UNCHANGED drlVars

\* An except clause that matches no exception.
CaughtNever(e) == FALSE

\* Line 75: the exceptions the except clause of the loop matches.
Caught(e) == e = "ROSInterruptException"

\* Lines 73-75: rate.sleep() raises ROSInterruptException (on shutdown, or,
\* as its subclass, when ROS time moves backwards) and the except clause is
\* entered.
SleepInterrupted ==
    /\ pc = "sleep"
    /\ pc' = IF Caught("ROSInterruptException") THEN "except" ELSE "raised"
    /\ UNCHANGED << clock, shutdown, lock, last_command, last_time, now,
                    delta_t, last_command_time, linear, angular, cb_pc,
                    cb_time, cb_msg, phys, step_args, pubs, pub_read, pub_stamp,
                    tick_times, idle_ticks, last_written, read_from >>
    /\ UNCHANGED simVars
    /\ UNCHANGED drlVars

\* Line 76: the handler passes; the loop goes on to its condition.
HandlerPasses ==
    /\ pc = "except"
    /\ pc' = "check"
    /\ UNCHANGED << clock, shutdown, lock, last_command, last_time, now,
                    delta_t, last_command_time, linear, angular, cb_pc,
                    cb_time, cb_msg, phys, step_args, pubs, pub_read, pub_stamp,
                    tick_times, idle_ticks, last_written, read_from >>
    /\ UNCHANGED simVars
    /\ UNCHANGED drlVars

\* --- loop_once

\* Line 85: the state of the lock after acquire() returned.
NotAcquired(l) == l

Acquired(l) == "held"

\* Line 85: self.lock.acquire(). A tick begins; what the collaborators record
\* per tick starts empty.
Acquire ==
    /\ pc = "acquire"
    /\ lock = "free"
    /\ lock' = Acquired(lock)
    /\ pc' = "now"
    /\ step_args' = None
    /\ pubs' = NoPubs
    /\ pub_read' = [t \in Topics |-> NoTime]
    /\ pub_stamp' = [t \in Topics |-> NoTime]
    /\ UNCHANGED << clock, shutdown, last_command, last_time, now, delta_t,
                    last_command_time, linear, angular, cb_pc, cb_time, cb_msg,
                    phys, tick_times, idle_ticks, last_written, read_from >>
    /\ UNCHANGED simVars
    /\ UNCHANGED drlVars

\* Line 86: now = rospy.Time.now().
ReadNow ==
    /\ pc = "now"
    /\ now' = clock
    /\ tick_times' = Append(tick_times, clock)
    /\ pc' = "test_last_time"
    /\ UNCHANGED << clock, shutdown, lock, last_command, last_time, delta_t,
                    last_command_time, linear, angular, cb_pc, cb_time, cb_msg,
                    phys, step_args, pubs, pub_read, pub_stamp, idle_ticks, last_written,
                    read_from >>
    /\ UNCHANGED simVars
    /\ UNCHANGED drlVars

\* The test of line 88 left out.
AlwaysHasLastTime(lt) == TRUE

\* Line 88: the test `self.last_time is not None`.
HasLastTime(lt) == lt # NoTime

\* Line 88: on the first tick the body of the if is skipped.
TestLastTime ==
    /\ pc = "test_last_time"
    /\ IF HasLastTime(last_time)
       THEN /\ pc' = "test_command"
            /\ UNCHANGED idle_ticks
       ELSE /\ pc' = "set_last_time"
            /\ idle_ticks' = idle_ticks + 1
    /\ UNCHANGED << clock, shutdown, lock, last_command, last_time, now,
                    delta_t, last_command_time, linear, angular, cb_pc,
                    cb_time, cb_msg, phys, step_args, pubs, pub_read, pub_stamp,
                    tick_times, last_written, read_from >>
    /\ UNCHANGED simVars
    /\ UNCHANGED drlVars

\* Line 90: the test `self.last_command is not None`.
TestCommand ==
    /\ pc = "test_command"
    /\ pc' = IF last_command # None THEN "delta_t" ELSE "pub_ball"
    /\ UNCHANGED << clock, shutdown, lock, last_command, last_time, now,
                    delta_t, last_command_time, linear, angular, cb_pc,
                    cb_time, cb_msg, phys, step_args, pubs, pub_read, pub_stamp,
                    tick_times, idle_ticks, last_written, read_from >>
    /\ UNCHANGED simVars
    /\ UNCHANGED drlVars

\* Line 91: (now - self.last_time).to_sec().
Elapsed(n, lt) == n - lt

\* Line 91.
ComputeDeltaT ==
    /\ pc = "delta_t"
    /\ delta_t' = Elapsed(now, last_time)
    /\ pc' = "unpack"
    /\ UNCHANGED << clock, shutdown, lock, last_command, last_time, now,
                    last_command_time, linear, angular, cb_pc, cb_time, cb_msg,
                    phys, step_args, pubs, pub_read, pub_stamp, tick_times, idle_ticks,
                    last_written, read_from >>
    /\ UNCHANGED simVars
    /\ UNCHANGED drlVars

\* Line 92: the three names bound by unpacking one tuple.
Unpacked(cmd) == [time |-> cmd[1], linear |-> cmd[2], angular |-> cmd[3]]

\* Line 92: self.last_command is read once and unpacked.
Unpack ==
    /\ pc = "unpack"
    /\ last_command_time' = Unpacked(last_command).time
    /\ linear' = Unpacked(last_command).linear
    /\ angular' = Unpacked(last_command).angular
    /\ read_from' = last_written
    /\ pc' = "step"
    /\ UNCHANGED << clock, shutdown, lock, last_command, last_time, now,
                    delta_t, cb_pc, cb_time, cb_msg, phys, step_args, pubs,
                    pub_read, pub_stamp, tick_times, idle_ticks, last_written >>
    /\ UNCHANGED simVars
    /\ UNCHANGED drlVars

\* The staleness test made against a new reading of the clock.
StaleAgainstClock(n, t) == clock - t >= Timeout

\* The staleness test with > for >=.
StaleStrict(n, t) == n - t > Timeout

\* Line 93: (now - last_command_time).to_sec() >= self.timeout.
Stale(n, t) == n - t >= Timeout

\* The arguments of self.sim.step with linear and angular in each other's place.
StepArgumentsSwapped(n, t, lin, ang, dt) ==
    IF Stale(n, t) THEN << 0, 0, dt >> ELSE << ang, lin, dt >>

\* Lines 93-96: the arguments of self.sim.step.
StepArguments(n, t, lin, ang, dt) ==
    IF Stale(n, t) THEN << 0, 0, dt >> ELSE << lin, ang, dt >>

\* Lines 93-96: the physics step of the tick.
CallStep ==
    /\ pc = "step"
    /\ step_args' = StepArguments(now, last_command_time, linear, angular, delta_t)
    /\ phys' = phys + 1
    /\ pc' = "pub_ball"
    /\ UNCHANGED << clock, shutdown, lock, last_command, last_time, now,
                    delta_t, last_command_time, linear, angular, cb_pc,
                    cb_time, cb_msg, pubs, pub_read, pub_stamp, tick_times, idle_ticks,
                    last_written, read_from >>
    /\ UNCHANGED simVars
    /\ UNCHANGED drlVars

\* publisher.publish(msg) of a message stamped with now (lines 100, 109, 127)
\* whose pose was read from the backend.
Publish(topic) ==
    /\ pubs' = [pubs EXCEPT ![topic] = @ + 1]
    /\ pub_read' = [pub_read EXCEPT ![topic] = phys]
    /\ pub_stamp' = [pub_stamp EXCEPT ![topic] = now]

\* Lines 99-105: the ball message is filled and published on ball_pose.
PubBall ==
    /\ pc = "pub_ball"
    /\ Publish("ball_pose")
    /\ pc' = "pub_bot"
    /\ UNCHANGED << clock, shutdown, lock, last_command, last_time, now,
                    delta_t, last_command_time, linear, angular, cb_pc,
                    cb_time, cb_msg, phys, step_args, tick_times, idle_ticks,
                    last_written, read_from >>
    /\ UNCHANGED simVars
    /\ UNCHANGED drlVars

\* Line 101: ball_msg.frame_id is no field of PoseWithCovarianceStamped (the
\* frame id lives in the header, as line 110 has it); a message class that
\* fixes its attributes rejects the assignment with AttributeError.
PubBallRaises ==
    /\ pc = "pub_ball"
    /\ pc' = "raised"
    /\ UNCHANGED << clock, shutdown, lock, last_command, last_time, now,
                    delta_t, last_command_time, linear, angular, cb_pc,
                    cb_time, cb_msg, phys, step_args, pubs, pub_read, pub_stamp,
                    tick_times, idle_ticks, last_written, read_from >>
    /\ UNCHANGED simVars
    /\ UNCHANGED drlVars

\* Lines 108-123: the odometry message is filled and published on bot_odom.
\* Lines 117 and 120 rebind linear and angular to the car's velocities.
PubBot ==
    /\ pc = "pub_bot"
    /\ linear' = phys
    /\ angular' = phys
    /\ Publish("bot_odom")
    /\ pc' = "pub_goal"
    /\ UNCHANGED << clock, shutdown, lock, last_command, last_time, now,
                    delta_t, last_command_time, cb_pc, cb_time, cb_msg, phys,
                    step_args, tick_times, idle_ticks, last_written,
                    read_from >>
    /\ UNCHANGED simVars
    /\ UNCHANGED drlVars

\* Lines 120-122: angular[0] on a scalar angular velocity raises TypeError.
PubBotRaises ==
    /\ pc = "pub_bot"
    /\ linear' = phys
    /\ angular' = phys
    /\ pc' = "raised"
    /\ UNCHANGED << clock, shutdown, lock, last_command, last_time, now,
                    delta_t, last_command_time, cb_pc, cb_time, cb_msg, phys,
                    step_args, pubs, pub_read, pub_stamp, tick_times, idle_ticks,
                    last_written, read_from >>
    /\ UNCHANGED simVars
    /\ UNCHANGED drlVars

\* Lines 126-132: line 129 rebinds goal_msg to the point returned by
\* self.sim.goal.getPoint(); line 130 reads goal_msg[0] and then goal_msg.pose
\* of that point, which raises AttributeError. Line 132, which would publish
\* on self.ball_pub, is not reached, and nothing publishes on self.goal_pub.
PubGoalRaises ==
    /\ pc = "pub_goal"
    /\ pc' = "raised"
    /\ UNCHANGED << clock, shutdown, lock, last_command, last_time, now,
                    delta_t, last_command_time, linear, angular, cb_pc,
                    cb_time, cb_msg, phys, step_args, pubs, pub_read, pub_stamp,
                    tick_times, idle_ticks, last_written, read_from >>
    /\ UNCHANGED simVars
    /\ UNCHANGED drlVars

\* Line 134, right-hand side.
RecordedTime(n) == n

\* Line 134: self.last_time = now.
SetLastTime ==
    /\ pc = "set_last_time"
    /\ last_time' = RecordedTime(now)
    /\ pc' = "release"
    /\ UNCHANGED << clock, shutdown, lock, last_command, now, delta_t,
                    last_command_time, linear, angular, cb_pc, cb_time, cb_msg,
                    phys, step_args, pubs, pub_read, pub_stamp, tick_times, idle_ticks,
                    last_written, read_from >>
    /\ UNCHANGED simVars
    /\ UNCHANGED drlVars

\* A release that leaves the lock as it is.
NotReleased(l) == l

\* Line 135: the state of the lock after release().
Released(l) == "free"

\* Line 135: self.lock.release(); loop_once returns to line 73.
Release ==
    /\ pc = "release"
    /\ lock' = Released(lock)
    /\ pc' = "sleep"
    /\ UNCHANGED << clock, shutdown, last_command, last_time, now, delta_t,
                    last_command_time, linear, angular, cb_pc, cb_time, cb_msg,
                    phys, step_args, pubs, pub_read, pub_stamp, tick_times, idle_ticks,
                    last_written, read_from >>
    /\ UNCHANGED simVars
    /\ UNCHANGED drlVars

\* ----------------------------------------------------------------- Sim model

\* Python's None in a field that otherwise holds a body id.
NoBody == "None"
\* The state of an attribute no statement has created yet.
Unset == "unset"

\* Lines 51-73: the bodies loaded by __init__, named by what p.loadURDF returned.
PlaneID == "plane"
BallID == "ball"
GoalID == "goal"
CarID == "car"
\* Lines 69-73: the keys of self._cars.
Cars == {CarID}

\* contact[2] of the entries p.getContactPoints(bodyA = ball) may return.
ContactBodies == {PlaneID, GoalID, CarID}
ContactLists ==
    UNION { [1..n -> ContactBodies] : n \in 0..MaxContacts }

\* The commands and time steps step may be called with.
Throttles == {0, 1}
Steerings == {-1, 1}
Dts == {1}

\* Lines 75-77 and the state of the collaborators after construction.
SimInit ==
    /\ running = TRUE
    /\ scored = FALSE
    /\ touched_last = NoBody
    /\ touchedLast = Unset
    /\ engine_steps = 0
    /\ car_steps = 0
    /\ car_cmd = None
    /\ ball_pose = "initial"
    /\ car_pose = "initial"
    /\ sim_call = [op |-> "init", raised |-> FALSE, detected |-> FALSE,
                   ran |-> FALSE, contacts |-> << >>]

\* The guard of line 83 left out.
StepAlwaysRuns(r) == TRUE

\* Line 83: the guard of step.
StepRuns(r) == r

\* The for loop without the return of line 91: the contacts after the goal
\* are gone through as well.
RECURSIVE ScanContactsNoReturn(_, _, _)
ScanContactsNoReturn(contacts, i, touched) ==
    IF i > Len(contacts)
    THEN [touched |-> touched, goal |-> FALSE, at |-> 0]
    ELSE IF contacts[i] \in Cars
    THEN ScanContactsNoReturn(contacts, i + 1, contacts[i])
    ELSE IF contacts[i] = GoalID
    THEN [touched |-> ScanContactsNoReturn(contacts, i + 1, touched).touched,
          goal |-> TRUE, at |-> i]
    ELSE ScanContactsNoReturn(contacts, i + 1, touched)

\* Lines 85-91: the for loop over the contacts, from the i-th on. `touched`
\* is the value of self.touchedLast so far; goal tells whether the loop
\* returned at a contact with the goal, and at is the index of that contact.
RECURSIVE ScanContacts(_, _, _)
ScanContacts(contacts, i, touched) ==
    IF i > Len(contacts)
    THEN [touched |-> touched, goal |-> FALSE, at |-> 0]
    ELSE IF contacts[i] \in Cars
    THEN ScanContacts(contacts, i + 1, contacts[i])
    ELSE IF contacts[i] = GoalID
    THEN [touched |-> touched, goal |-> TRUE, at |-> i]
    ELSE ScanContacts(contacts, i + 1, touched)

\* The goal branch without line 90.
GoalFlagsStillRunning == [scored |-> TRUE, running |-> TRUE]

\* Lines 89-90: the flags set when the ball touches the goal.
GoalFlags == [scored |-> TRUE, running |-> FALSE]

\* Lines 81-96: Sim.step.
step ==
    /\ running => engine_steps < MaxEngineSteps
    /\ \E contacts \in ContactLists, throttle_cmd \in Throttles,
          steering_cmd \in Steerings, dt \in Dts :
         IF StepRuns(running)
         THEN LET scan == ScanContacts(contacts, 1, touchedLast) IN
              /\ touchedLast' = scan.touched
              /\ IF scan.goal
                 THEN \* lines 89-91
                      /\ scored' = GoalFlags.scored
                      /\ running' = GoalFlags.running
                      /\ UNCHANGED << engine_steps, car_steps, car_cmd,
                                      ball_pose, car_pose >>
                 ELSE \* lines 93-96
                      /\ car_cmd' = << throttle_cmd, steering_cmd, dt >>
                      /\ car_steps' = car_steps + 1
                      /\ engine_steps' = engine_steps + 1
                      /\ ball_pose' \in {ball_pose, "moved"}
                      /\ car_pose' \in {car_pose, "moved"}
                      /\ UNCHANGED << scored, running >>
              /\ sim_call' = [op |-> "step", raised |-> FALSE,
                              detected |-> scan.goal, ran |-> TRUE,
                              contacts |-> contacts]
         ELSE /\ sim_call' = [op |-> "step", raised |-> FALSE,
                              detected |-> FALSE, ran |-> FALSE,
                              contacts |-> << >>]
              /\ UNCHANGED << running, scored, touchedLast, engine_steps,
                              car_steps, car_cmd, ball_pose, car_pose >>
    /\ UNCHANGED touched_last
    /\ UNCHANGED nodeVars
    /\ UNCHANGED drlVars

\* Lines 112-123: Sim.reset. Lines 113-115 are executed; line 118 reads
\* self._ballInitPos, an attribute neither __init__ (44-79) nor any other
\* method creates, and raises AttributeError: the ball and the cars are not
\* reset (120 would fail likewise on self.cars) and line 123 is not reached.
reset ==
    /\ running' = FALSE
    /\ scored' = FALSE
    /\ touched_last' = NoBody
    /\ sim_call' = [op |-> "reset", raised |-> TRUE, detected |-> FALSE,
                    ran |-> FALSE, contacts |-> << >>]
    /\ UNCHANGED << touchedLast, engine_steps, car_steps, car_cmd, ball_pose,
                    car_pose >>
    /\ UNCHANGED nodeVars
    /\ UNCHANGED drlVars

\* ------------------------------------------------------------- run_drl model

\* A name the script has not bound.
Unbound == "unbound"

\* The words an argument may be.
ArgWords ==
    {"snake", "cartpole_ros", "cartpole_direct", "pong", "train", "eval",
     "play"}

\* sys.argv: the script's name followed by up to MaxArgs arguments.
ArgLists ==
    { << "run_drl.py" >> \o args :
        args \in UNION { [1..n -> ArgWords] : n \in 0..MaxArgs } }

\* sys.argv[k], Python's indexing from 0.
Arg(a, k) == a[k + 1]
\* sys.argv[k] exists.
HasArg(a, k) == Len(a) > k

\* Line 38: assert len(sys.argv) >= 2.
AssertPasses(a) == Len(a) >= 2

\* Lines 43-48: the interface class of an environment name; Unbound when no
\* branch binds Interface.
InterfaceOf(e) ==
    CASE e = "snake" -> "SnakeInterface"
      [] e = "cartpole_ros" -> "CartpoleInterface"
      [] e = "cartpole_direct" -> "CartpoleDirectInterface"
      [] OTHER -> Unbound

\* The script before it is run.
DrlNotStarted ==
    /\ argv = << "run_drl.py" >>
    /\ drl_pc = "off"
    /\ env = Unbound
    /\ mode = Unbound
    /\ Interface = Unbound
    /\ built = {}
    /\ reported = {}

\* The script started on some argument list.
DrlStarted ==
    /\ argv \in ArgLists
    /\ drl_pc = "assert"
    /\ env = Unbound
    /\ mode = Unbound
    /\ Interface = Unbound
    /\ built = {}
    /\ reported = {}

\* Line 38.
DrlAssert ==
    /\ drl_pc = "assert"
    /\ drl_pc' = IF AssertPasses(argv) THEN "read_env" ELSE "AssertionError"
    /\ UNCHANGED << argv, env, mode, Interface, built, reported >>
    /\ UNCHANGED << nodeVars, simVars >>

\* Line 39: env = sys.argv[1].
DrlReadEnv ==
    /\ drl_pc = "read_env"
    /\ IF HasArg(argv, 1)
       THEN env' = Arg(argv, 1) /\ drl_pc' = "read_mode"
       ELSE env' = env /\ drl_pc' = "IndexError"
    /\ UNCHANGED << argv, mode, Interface, built, reported >>
    /\ UNCHANGED << nodeVars, simVars >>

\* Line 40: mode = sys.argv[2].
DrlReadMode ==
    /\ drl_pc = "read_mode"
    /\ IF HasArg(argv, 2)
       THEN mode' = Arg(argv, 2) /\ drl_pc' = "print"
       ELSE mode' = mode /\ drl_pc' = "IndexError"
    /\ UNCHANGED << argv, env, Interface, built, reported >>
    /\ UNCHANGED << nodeVars, simVars >>

\* Line 41.
DrlPrint ==
    /\ drl_pc = "print"
    /\ reported' = reported \cup {"running"}
    /\ drl_pc' = "select"
    /\ UNCHANGED << argv, env, mode, Interface, built >>
    /\ UNCHANGED << nodeVars, simVars >>

\* Lines 43-50: Interface is bound by the branch of the environment; the
\* else branch prints and binds nothing.
DrlSelect ==
    /\ drl_pc = "select"
    /\ Interface' = InterfaceOf(env)
    /\ reported' = IF InterfaceOf(env) = Unbound
                   THEN reported \cup {"unrecognized environment"}
                   ELSE reported
    /\ drl_pc' = "make_agent"
    /\ UNCHANGED << argv, env, mode, built >>
    /\ UNCHANGED << nodeVars, simVars >>

\* Line 52: Agent = makeAgent(Interface); NameError when Interface is not
\* bound.
DrlMakeAgent ==
    /\ drl_pc = "make_agent"
    /\ IF Interface = Unbound
       THEN built' = built /\ drl_pc' = "NameError"
       ELSE built' = built \cup {"Agent"} /\ drl_pc' = "dispatch"
    /\ UNCHANGED << argv, env, mode, Interface, reported >>
    /\ UNCHANGED << nodeVars, simVars >>

\* Lines 54-61.
DrlDispatch ==
    /\ drl_pc = "dispatch"
    /\ built' = IF mode = "train" THEN built \cup {"Trainer"}
                ELSE IF mode = "eval" THEN built \cup {"Evaluator"}
                ELSE built
    /\ reported' = IF mode \in {"train", "eval"}
                   THEN reported
                   ELSE reported \cup {"unrecognized mode"}
    /\ drl_pc' = "done"
    /\ UNCHANGED << argv, env, mode, Interface >>
    /\ UNCHANGED << nodeVars, simVars >>

Init == NodeInit /\ SimInit /\ DrlNotStarted

Next ==
    \/ Advance
    \/ Shutdown
    \/ CbStamp
    \/ CbStore
    \/ CheckShutdown
    \/ SleepReturns
    \/ SleepInterrupted
    \/ HandlerPasses
    \/ Acquire
    \/ ReadNow
    \/ TestLastTime
    \/ TestCommand
    \/ ComputeDeltaT
    \/ Unpack
    \/ CallStep
    \/ PubBall
    \/ PubBallRaises
    \/ PubBot
    \/ PubBotRaises
    \/ PubGoalRaises
    \/ SetLastTime
    \/ Release

Spec == Init /\ [][Next]_vars

\* The calls a client of Sim may make, in any order.
SimNext ==
    \/ step
    \/ reset

SimSpec == Init /\ [][SimNext]_vars

\* run_drl.py run from its first statement on some argument list.
DrlInit == NodeInit /\ SimInit /\ DrlStarted

DrlNext ==
    \/ DrlAssert
    \/ DrlReadEnv
    \/ DrlReadMode
    \/ DrlPrint
    \/ DrlSelect
    \/ DrlMakeAgent
    \/ DrlDispatch

DrlSpec == DrlInit /\ [][DrlNext]_vars

\* ------------------------------------------------------------------ claims

\* The number of ticks begun so far and the timestamp of the current one.
Ticks == Len(tick_times)
\* The main thread is between ticks or has stopped: the last tick has ended.
TickEnded == pc \notin TickBody
\* The physics step of the current tick has been called.
Stepped == step_args # None

\* C1: in a tick after the first, when the command the tick read was written
\* at t and the tick's timestamp t' has t' - t < timeout, the physics step of
\* the tick receives that command's linear and angular values unchanged.
C1_FreshCommandPassed ==
    (Stepped /\ now - read_from[1] < Timeout) =>
        /\ Ticks >= 2
        /\ step_args[1] = read_from[2]
        /\ step_args[2] = read_from[3]

\* C1: a tick stepped with a command of age timeout - 1 whose two values differ.
C1_Witness ==
    /\ Stepped
    /\ now - read_from[1] = Timeout - 1
    /\ read_from[2] # read_from[3]
    /\ step_args = << read_from[2], read_from[3], delta_t >>

\* C2: in a tick after the first, when the command the tick read was written
\* at t and the tick's timestamp t' has t' - t >= timeout (t' - t = timeout
\* included), the physics step of the tick receives (0, 0); no statement of the
\* loop modifies the stored command.
C2_StaleCommandZeroed ==
    /\ [](Stepped /\ now - read_from[1] >= Timeout =>
            step_args[1] = 0 /\ step_args[2] = 0)
    /\ [][pc' # pc => last_command' = last_command]_vars

\* C2: a tick stepped with (0, 0) on a command of age exactly timeout, the
\* stored command still holding its nonzero values.
C2_Witness ==
    /\ Stepped
    /\ now - read_from[1] = Timeout
    /\ step_args = << 0, 0, delta_t >>
    /\ last_command = read_from
    /\ last_command[2] # 0

\* C3: the first tick calls no physics step and leaves the physics state as
\* it was, command or no command; it records its timestamp in last_time; and
\* exactly one tick of a run finds last_time to be None.
C3_FirstTickOnlyRecords ==
    /\ Ticks <= 1 => phys = 0 /\ step_args = None
    /\ idle_ticks <= 1
    /\ (Ticks = 1 /\ TickEnded) => last_time = tick_times[1] /\ idle_ticks = 1
    /\ Ticks >= 2 => last_time # NoTime /\ idle_ticks = 1

\* C3: the first tick has ended with a command received before it began.
C3_Witness ==
    /\ Ticks = 1
    /\ pc = "sleep"
    /\ last_command # None
    /\ last_command[1] < tick_times[1]
    /\ last_time = tick_times[1]
    /\ phys = 0

\* C4: with increasing tick timestamps, every physics step is passed the
\* difference between its tick's timestamp and that of the tick before it,
\* for any sequence of ticks: so every tick after the first that has ended
\* has left the loop running, with last_time at its own timestamp for the
\* next tick to measure from.
C4_DtBetweenConsecutiveTicks ==
    (Ticks >= 2 /\ tick_times[Ticks] > tick_times[Ticks - 1]) =>
        /\ Stepped => step_args[3] = tick_times[Ticks] - tick_times[Ticks - 1]
        /\ TickEnded => pc # "raised" /\ last_time = tick_times[Ticks]

\* C5: a call of reset completes and leaves the ball and the car at their
\* initial poses, scored False, the last touch cleared and running True.
C5_ResetRestores ==
    sim_call.op = "reset" =>
        /\ ~sim_call.raised
        /\ running
        /\ ~scored
        /\ touched_last = NoBody
        /\ ball_pose = "initial"
        /\ car_pose = "initial"

\* C6: a step call that detects a contact of the ball with the goal leaves
\* scored True and running False, and every later step call, until reset is
\* called, steps no car and does not advance the engine.
C6_HaltedUntilReset ==
    /\ [](sim_call.op = "step" /\ sim_call.detected => scored /\ ~running)
    /\ [][(scored /\ sim_call'.op = "step") =>
            UNCHANGED << engine_steps, car_steps, car_cmd, ball_pose,
                         car_pose, scored, running >>]_vars

\* C6: step has been called on a simulation halted by a goal.
C6_Witness ==
    /\ scored
    /\ ~running
    /\ sim_call.op = "step"
    /\ ~sim_call.detected
    /\ engine_steps > 0

\* C7: a tick after the first publishes exactly one message on each of
\* bot_odom, ball_pose and goal_pose.
C7_OnePerTopic ==
    /\ \A t \in Topics : pubs[t] <= 1
    /\ (Ticks >= 2 /\ TickEnded) => \A t \in Topics : pubs[t] = 1

C9_NoTornCommand ==
    /\ last_command = last_written
    /\ pc = "step" =>
          /\ read_from # None
          /\ << last_command_time, linear, angular >> = read_from
    /\ Stepped =>
          step_args = IF now - read_from[1] >= Timeout
                      THEN << 0, 0, delta_t >>
                      ELSE << read_from[2], read_from[3], delta_t >>

\* C9: a tick is about to step with the command it read while a newer command
\* has already replaced it.
C9_Witness ==
    /\ pc = "step"
    /\ << last_command_time, linear, angular >> = read_from
    /\ last_command # read_from
    /\ last_command[2] # read_from[2]

\* C10: the loop stops, by returning or by an error, only once shutdown has
\* been signalled.
C10_StopsOnlyOnShutdown ==
    pc \in LoopStopped => shutdown

\* C11: shutdown is tested before each tick and before the lock is taken: a
\* loop that has exited did so on shutdown and with the lock free, and every
\* tick that was begun has run to completion (last_time at its timestamp,
\* lock released), none abandoned midway.
C11_NoPartialTick ==
    /\ pc = "exited" => shutdown /\ lock = "free"
    /\ pc = "acquire" => lock = "free"
    /\ (Ticks >= 1 /\ TickEnded) =>
           lock = "free" /\ last_time = tick_times[Ticks]

\* C12: an interrupt raised by the rate sleep is swallowed: the loop goes
\* from the sleep to the except clause and from there to its condition,
\* never out of the loop, with the tick state, the stored command and the
\* lock as they were; from the condition it goes to the next tick unless
\* shutdown has been signalled.
C12_InterruptSwallowed ==
    /\ [][(pc \in {"sleep", "except"} /\ pc' # pc) =>
            /\ pc' = "check" \/ (pc = "sleep" /\ pc' = "except")
            /\ UNCHANGED << lock, last_time, last_command, phys >>]_vars
    /\ [][(pc = "check" /\ pc' # pc) =>
            pc' = IF shutdown THEN "exited" ELSE "acquire"]_vars

\* C12: the sleep was interrupted with no shutdown signalled and a command
\* stored.
C12_Witness ==
    /\ pc = "except"
    /\ ~shutdown
    /\ lock = "free"
    /\ last_command # None
    /\ last_time = tick_times[Ticks]

\* C13: as long as no command has been received, no tick calls the physics
\* step or raises an error, and every tick that has ended has set last_time
\* to its own timestamp.
C13_NoCommandNoOp ==
    last_written = None =>
        /\ phys = 0
        /\ step_args = None
        /\ pc # "raised"
        /\ (Ticks >= 1 /\ TickEnded) => last_time = tick_times[Ticks]

\* C14: the loop never sleeps while holding the lock: whenever the main
\* thread waits in rate.sleep(), the lock is free.
C14_NoSleepUnderLock ==
    pc = "sleep" => lock = "free"

\* C14: the loop sleeps after a tick that acquired and released the lock.
C14_Witness ==
    /\ pc = "sleep"
    /\ Ticks = 1
    /\ last_time = tick_times[1]
    /\ lock = "free"

\* C15: in a tick after the first, last_time is still the previous tick's
\* timestamp while dt is computed and the step is made; a message published
\* carries the pose read after the tick's physics step; and the tick ends
\* with the three messages published and then last_time set to its timestamp.
C15_StepPublishRecord ==
    Ticks >= 2 =>
        /\ pc \in {"test_last_time", "test_command", "delta_t", "unpack",
                   "step"} =>
               last_time = tick_times[Ticks - 1] /\ pubs = NoPubs
        /\ \A t \in Topics : pubs[t] > 0 => pub_read[t] = phys
        /\ TickEnded =>
               /\ \A t \in Topics : pubs[t] = 1
               /\ last_time = tick_times[Ticks]

\* C16: a tick reads the clock once, under the lock, and that one value now
\* is what the staleness test, dt, the stamp of every message published in
\* the tick and the new last_time use; a command stamped after now was read
\* is judged against that now, whatever the clock has become since.
C16_AgeAgainstTickTime ==
    /\ pc \in TickBody => lock = "held"
    /\ pc \in TickBody \ {"now"} => now = tick_times[Ticks]
    /\ Stepped =>
          /\ step_args[3] = tick_times[Ticks] - last_time
          /\ (step_args[1] = 0 /\ step_args[2] = 0) <=>
                 (tick_times[Ticks] - read_from[1] >= Timeout)
    /\ \A t \in Topics : pubs[t] > 0 => pub_stamp[t] = tick_times[Ticks]
    /\ (Ticks >= 1 /\ (pc = "release" \/ (TickEnded /\ pc # "raised"))) =>
           last_time = tick_times[Ticks]

\* C16: a tick stepped with the values of a command that was stamped after
\* the tick read the clock, at a moment when the clock had already passed
\* that stamp by the timeout.
C16_Witness ==
    /\ Stepped
    /\ read_from[1] > now
    /\ clock - read_from[1] >= Timeout
    /\ step_args = << read_from[2], read_from[3], delta_t >>

\* A car is among the contacts the latest step call went through.
CarTouched ==
    \E i \in 1..Len(sim_call.contacts) :
        /\ sim_call.contacts[i] \in Cars
        /\ \A j \in 1..(i - 1) : sim_call.contacts[j] # GoalID

\* C17: after a step call made while running in which the ball is in contact
\* with a car, touched_last, the field of the constructor and of reset, holds
\* that car's id.
C17_TouchedLastHoldsCar ==
    (sim_call.op = "step" /\ sim_call.ran /\ CarTouched) =>
        touched_last \in Cars

\* C18: after any sequence of step and reset calls, a reset that failed
\* partway included, scored implies not running.
C18_ScoredNotRunning ==
    scored => ~running

\* C18: a goal has been detected after the engine has run: scored is set.
C18_Witness ==
    /\ scored
    /\ ~running
    /\ sim_call.op = "step"
    /\ sim_call.detected
    /\ engine_steps > 0

\* The index of the first contact with the goal in a list of contacts.
FirstGoal(cs) ==
    CHOOSE i \in 1..Len(cs) :
        cs[i] = GoalID /\ \A j \in 1..(i - 1) : cs[j] # GoalID

\* The indices before index g at which the contact is a car.
CarsBefore(cs, g) == { j \in 1..(g - 1) : cs[j] \in Cars }

\* C19: the step call that detects the contact of the ball with the goal
\* steps no car and does not advance the engine, and of the contacts it was
\* given it records the last car listed before the goal and none listed
\* after it.
C19_GoalReturnsAtOnce ==
    [][(sim_call'.op = "step" /\ sim_call'.detected) =>
          LET cs == sim_call'.contacts
              g == FirstGoal(cs)
          IN  /\ UNCHANGED << engine_steps, car_steps, car_cmd, ball_pose,
                              car_pose >>
              /\ touchedLast' =
                     IF CarsBefore(cs, g) = {}
                     THEN touchedLast
                     ELSE cs[CHOOSE j \in CarsBefore(cs, g) :
                                \A k \in CarsBefore(cs, g) : k <= j]]_vars

\* C19: a step call has returned at a goal contact listed before a car
\* contact: no car is recorded.
C19_Witness ==
    /\ sim_call.op = "step"
    /\ sim_call.detected
    /\ sim_call.contacts = << GoalID, CarID >>
    /\ touchedLast = Unset
    /\ engine_steps = car_steps

\* C20: for every argument list that passes the assertion of line 38,
\* reading the environment and the mode raises no error, and an unrecognized
\* environment is reported with no agent, trainer or evaluator constructed.
C20_AssertGuardsArguments ==
    (AssertPasses(argv) /\ drl_pc # "assert") =>
        /\ drl_pc # "IndexError"
        /\ (InterfaceOf(env) = Unbound
              /\ drl_pc \in {"make_agent", "dispatch", "done", "NameError"}) =>
               "unrecognized environment" \in reported /\ built = {}

====
